---- MODULE Spec2Model ----
(***************************************************************************)
(* A model of miscreant's internals: the 16-byte Block (internals/block.rs) *)
(* and the streaming CMAC built on it (internals/cmac.rs).                  *)
(*                                                                          *)
(* Bytes are integers 0..255, a Block is a sequence of SIZE bytes.  Rust's  *)
(* 0-based offsets (state_pos, msg_pos) are kept as in the source; the      *)
(* helper Slice turns a Rust range a..b into the 1-based SubSeq.            *)
(***************************************************************************)
EXTENDS Integers, Sequences, FiniteSets, TLC

VARIABLES
    \* ---- struct Cmac<C> (cmac.rs:9-16)
    cipher,      \* the owned cipher: identified by its key
    subkey1,
    subkey2,
    state,
    state_pos,
    finished,
    \* ---- what the caller of a Cmac observes
    tag,         \* the Tag returned by the last successful finish, or NoTag
    encrypts,    \* cipher.encrypt calls on state since new/reset (not a field: an observer's count)
    fed,         \* the msg arguments of the update calls that returned since new/reset
    reset_from,  \* the kind of state the last reset was called in ("none" before any)
    \* ---- a Block and the buffer handed to its operations (block.rs)
    block1,        \* the receiving Block (self)
    other,         \* the caller's byte buffer passed as `other` / `buf`
    other_aligned, \* whether that buffer's address is a multiple of 16
    big_endian,    \* the byte order of the build target
    from_out,      \* the Block returned by the last Block::from, or NoBlock
    xored,         \* per successful xor_in_place so far: block1 before it
    \* ---- the last call made, and how it ended
    op,          \* name of the last call
    result,      \* "ok", or the panic message it aborted with
    calls        \* number of calls made so far

cmac_vars ==
    <<cipher, subkey1, subkey2, state, state_pos, finished, tag, encrypts, fed, reset_from>>
block_vars == <<block1, other, other_aligned, big_endian, from_out, xored>>
vars == <<cmac_vars, block_vars, op, result, calls>>

\* ------------------------------------------------------------------ bounds
\* Calls made on one Cmac instance in a behaviour.
MaxCalls == 4
\* Calls made on one Block in a behaviour.
MaxBlockCalls == 3

\* ------------------------------------------------------------------ bytes
SIZE == 16
BLOCK_SIZE == SIZE

NoTag == <<>>
NoBlock == <<>>

RECURSIVE XorByte(_, _)
\* u8 ^ u8
XorByte(a, b) ==
    IF a = 0 THEN b
    ELSE IF b = 0 THEN a
    ELSE ((a + b) % 2) + 2 * XorByte(a \div 2, b \div 2)

\* Rust's s[from..to] (0-based, half open); callers check the range first.
Slice(s, from, to) == SubSeq(s, from + 1, to)
SliceInBounds(s, from, to) == from <= to /\ to <= Len(s)

\* ------------------------------------------------------------------ Block
\* Block::new
Block_new == [i \in 1..SIZE |-> 0]

\* Block::clear (util::clear): every byte becomes zero.
Block_clear(b) == [i \in 1..SIZE |-> 0]

\* Block::dbl (util::dbl): doubling in GF(2^128), the block read big-endian:
\* shift left by one bit, and XOR 0x87 into the last byte if the top bit was set.
Block_dbl(b) ==
    [i \in 1..SIZE |->
        IF i < SIZE
        THEN ((b[i] * 2) % 256) + (b[i + 1] \div 128)
        ELSE XorByte((b[i] * 2) % 256, IF b[1] >= 128 THEN 135 ELSE 0)]

\* BlockCipher::encrypt for the cipher keyed with k: a deterministic
\* permutation of the blocks (bytes rotated by one place, each through an
\* affine bijection of 0..255 that depends on the key and the place).
encrypt(k, b) ==
    [i \in 1..SIZE |-> (5 * b[(i % SIZE) + 1] + 7 * i + k) % 256]

\* ------------------------------------------------------------------ XOR
\* xor::in_place(a, b): XOR the slice b into the slice a; the two slices must
\* have the same length.
xor_in_place(a, b) == [i \in 1..Len(a) |-> XorByte(a[i], b[i])]

\* util::xor_in_place(a, b): the byte-wise fallback of Block::xor_in_place.
util_xor_in_place(a, b) == [i \in 1..SIZE |-> XorByte(a[i], b[i])]

\* The slice s with s[from..from+len(part)] overwritten by part: what writing
\* through a `&mut s[from..to]` leaves in s.
WriteBack(s, from, part) ==
    [i \in 1..Len(s) |->
        IF i > from /\ i <= from + Len(part) THEN part[i - from] ELSE s[i]]

\* mem::transmute of a 16-byte array to u128 and back.  A u128 is written as
\* its 16 base-256 digits, most significant first; which byte is the most
\* significant one is the target's byte order.
to_u128(bytes, be) == IF be THEN bytes ELSE [i \in 1..SIZE |-> bytes[SIZE + 1 - i]]
from_u128(x, be) == IF be THEN x ELSE [i \in 1..SIZE |-> x[SIZE + 1 - i]]
\* u128 ^ u128
u128_xor(x, y) == [i \in 1..SIZE |-> XorByte(x[i], y[i])]

\* Block::xor_in_place accepting any buffer of at least 16 bytes.
Block_xor_in_place_atleast(self, oth, aligned, be) ==
    IF Len(oth) < SIZE
    THEN [block |-> self, panic |-> "xor_in_place works on block-sized slices"]
    ELSE LET other_ref == Slice(oth, 0, SIZE) IN
         IF aligned
         THEN [block |-> from_u128(u128_xor(to_u128(self, be), to_u128(other_ref, be)), be),
               panic |-> "none"]
         ELSE [block |-> util_xor_in_place(self, other_ref), panic |-> "none"]

\* Block::xor_in_place whose aligned path assigns (*x = *y) instead of XORing.
Block_xor_in_place_assign(self, oth, aligned, be) ==
    IF Len(oth) # SIZE
    THEN [block |-> self, panic |-> "xor_in_place works on block-sized slices"]
    ELSE LET other_ref == Slice(oth, 0, SIZE) IN
         IF aligned
         THEN [block |-> from_u128(to_u128(other_ref, be), be), panic |-> "none"]
         ELSE [block |-> util_xor_in_place(self, oth), panic |-> "none"]

\* Block::xor_in_place whose aligned path ORs (*x |= *y) instead of XORing.
Block_xor_in_place_or(self, oth, aligned, be) ==
    IF Len(oth) # SIZE
    THEN [block |-> self, panic |-> "xor_in_place works on block-sized slices"]
    ELSE IF aligned
         THEN [block |-> [i \in 1..SIZE |-> (self[i] + oth[i] + XorByte(self[i], oth[i])) \div 2],
               panic |-> "none"]
         ELSE [block |-> util_xor_in_place(self, oth), panic |-> "none"]

\* Block::xor_in_place(other), other's address aligned or not:
\* [block |-> self afterwards, panic |-> "none" or the panic message].
Block_xor_in_place(self, oth, aligned, be) ==
    IF Len(oth) # SIZE
    THEN [block |-> self, panic |-> "xor_in_place works on block-sized slices"]
    ELSE LET other_ref == Slice(oth, 0, SIZE) IN
         IF aligned
         THEN [block |-> from_u128(u128_xor(to_u128(self, be), to_u128(other_ref, be)), be),
               panic |-> "none"]
         ELSE [block |-> util_xor_in_place(self, oth), panic |-> "none"]

\* Block::from rejecting 16-byte slices too (len >= SIZE).
Block_from_strict(buf) ==
    LET len == Len(buf) IN
    IF len >= SIZE
    THEN [block |-> NoBlock, panic |-> "slice is too large for block!"]
    ELSE [block |-> WriteBack(Block_new, 0, buf), panic |-> "none"]

\* impl From<&[u8]> for Block:
\* [block |-> the Block returned, or NoBlock, panic |-> "none" or the message].
Block_from(buf) ==
    LET len == Len(buf) IN
    IF len > SIZE
    THEN [block |-> NoBlock, panic |-> "slice is too large for block!"]
    ELSE [block |-> WriteBack(Block_new, 0, buf), panic |-> "none"]

\* ------------------------------------------------------------------ Cmac
\* Cmac::new whose subkey2 is a clone of subkey1, not doubled.
Cmac_new_undoubled(k) ==
    LET sk1 == Block_dbl(encrypt(k, Block_new))
        sk2 == sk1
    IN [cipher |-> k, subkey1 |-> sk1, subkey2 |-> sk2,
        state |-> Block_new, state_pos |-> 0, finished |-> FALSE, encrypts |-> 0]

\* Cmac::new(cipher)
Cmac_new(k) ==
    LET sk1 == Block_dbl(encrypt(k, Block_new))
        sk2 == Block_dbl(sk1)
    IN [cipher |-> k, subkey1 |-> sk1, subkey2 |-> sk2,
        state |-> Block_new, state_pos |-> 0, finished |-> FALSE, encrypts |-> 0]

\* Cmac::reset that leaves finished as it is.
Cmac_reset_keeps_finished(self) ==
    [self EXCEPT !.state = Block_clear(self.state),
                 !.state_pos = 0,
                 !.encrypts = 0]

\* Cmac::reset that does not clear state.
Cmac_reset_keeps_state(self) ==
    [self EXCEPT !.state_pos = 0,
                 !.finished = FALSE,
                 !.encrypts = 0]

\* Cmac::reset
Cmac_reset(self) ==
    [self EXCEPT !.state = Block_clear(self.state),
                 !.state_pos = 0,
                 !.finished = FALSE,
                 !.encrypts = 0]

\* A frame of update: the instance, the two cursors into msg, and the panic
\* that ended the call ("none" while it runs).
Frame(self, msg_pos, msg_len, panic) ==
    [self |-> self, msg_pos |-> msg_pos, msg_len |-> msg_len, panic |-> panic]

\* update_fill that encrypts as soon as the block is full (msg_len >= remaining).
update_fill_eager(self, msg) ==
    LET msg_len == Len(msg)
        remaining == BLOCK_SIZE - self.state_pos
    IN IF msg_len >= remaining
       THEN LET dst == Slice(self.state, self.state_pos, SIZE)
                src == Slice(msg, 0, remaining)
                xored_state == WriteBack(self.state, self.state_pos, xor_in_place(dst, src))
            IN Frame([self EXCEPT !.state = encrypt(self.cipher, xored_state),
                                  !.encrypts = @ + 1,
                                  !.state_pos = 0],
                     remaining, msg_len - remaining, "none")
       ELSE Frame(self, 0, msg_len, "none")

\* update_fill that forgets to reset state_pos after encrypting.
update_fill_keeps_pos(self, msg) ==
    LET msg_len == Len(msg)
        remaining == BLOCK_SIZE - self.state_pos
    IN IF msg_len > remaining
       THEN LET dst == Slice(self.state, self.state_pos, SIZE)
                src == Slice(msg, 0, remaining)
                xored_state == WriteBack(self.state, self.state_pos, xor_in_place(dst, src))
            IN Frame([self EXCEPT !.state = encrypt(self.cipher, xored_state),
                                  !.encrypts = @ + 1],
                     remaining, msg_len - remaining, "none")
       ELSE Frame(self, 0, msg_len, "none")

\* update, lines 55-70: fill the buffered block and encrypt it, when msg has
\* more bytes than the block has room for.
update_fill(self, msg) ==
    LET msg_len == Len(msg) IN
    IF self.state_pos > BLOCK_SIZE
    THEN Frame(self, 0, msg_len, "attempt to subtract with overflow")
    ELSE
    LET remaining == BLOCK_SIZE - self.state_pos IN
    IF msg_len > remaining
    THEN IF ~SliceInBounds(msg, 0, remaining)
         THEN Frame(self, 0, msg_len, "range end index out of range")
         ELSE
         LET dst == Slice(self.state, self.state_pos, SIZE)
             src == Slice(msg, 0, remaining)
         IN IF Len(dst) # Len(src)
            THEN Frame(self, 0, msg_len, "slice length mismatch")
            ELSE
            LET xored_state == WriteBack(self.state, self.state_pos, xor_in_place(dst, src))
            IN IF msg_len < remaining
               THEN Frame([self EXCEPT !.state = xored_state], 0, msg_len, "underflow")
               ELSE Frame([self EXCEPT !.state = encrypt(self.cipher, xored_state),
                                       !.encrypts = @ + 1,
                                       !.state_pos = 0],
                          remaining, msg_len - remaining, "none")
    ELSE Frame(self, 0, msg_len, "none")

RECURSIVE update_blocks_eager(_, _, _, _)
\* update_blocks that also consumes a last full block (msg_len >= BLOCK_SIZE).
update_blocks_eager(f, msg, addr, be) ==
    IF f.panic # "none" \/ ~(f.msg_len >= BLOCK_SIZE) THEN f
    ELSE
    LET chunk == Slice(msg, f.msg_pos, f.msg_pos + BLOCK_SIZE)
        x == Block_xor_in_place(f.self.state, chunk, (addr + f.msg_pos) % SIZE = 0, be)
    IN update_blocks_eager(
           Frame([f.self EXCEPT !.state = encrypt(f.self.cipher, x.block),
                                !.encrypts = @ + 1],
                 f.msg_pos + BLOCK_SIZE, f.msg_len - BLOCK_SIZE, "none"),
           msg, addr, be)

RECURSIVE update_blocks(_, _, _, _)
\* update, lines 72-81: while more than one block remains, XOR the next 16
\* bytes of msg into state and encrypt.  addr is msg's address modulo 16.
update_blocks(f, msg, addr, be) ==
    IF f.panic # "none" \/ ~(f.msg_len > BLOCK_SIZE) THEN f
    ELSE IF ~SliceInBounds(msg, f.msg_pos, f.msg_pos + BLOCK_SIZE)
    THEN Frame(f.self, f.msg_pos, f.msg_len, "range end index out of range")
    ELSE
    LET chunk == Slice(msg, f.msg_pos, f.msg_pos + BLOCK_SIZE)
        x == Block_xor_in_place(f.self.state, chunk, (addr + f.msg_pos) % SIZE = 0, be)
    IN IF x.panic # "none" THEN Frame(f.self, f.msg_pos, f.msg_len, x.panic)
       ELSE update_blocks(
                Frame([f.self EXCEPT !.state = encrypt(f.self.cipher, x.block),
                                     !.encrypts = @ + 1],
                      f.msg_pos + BLOCK_SIZE, f.msg_len - BLOCK_SIZE, "none"),
                msg, addr, be)

\* update_tail that advances state_pos one place too far.
update_tail_offbyone(f, msg) ==
    IF f.panic # "none" \/ ~(f.msg_len > 0) THEN f
    ELSE
    LET state_end == f.self.state_pos + f.msg_len
        dst == Slice(f.self.state, f.self.state_pos, state_end)
        src == Slice(msg, f.msg_pos, f.msg_pos + f.msg_len)
    IN Frame([f.self EXCEPT
                 !.state = WriteBack(f.self.state, f.self.state_pos, xor_in_place(dst, src)),
                 !.state_pos = state_end + 1],
             f.msg_pos, f.msg_len, "none")

\* update, lines 83-92: buffer the tail of msg in state, unencrypted.
update_tail(f, msg) ==
    IF f.panic # "none" \/ ~(f.msg_len > 0) THEN f
    ELSE
    LET state_end == f.self.state_pos + f.msg_len IN
    IF ~SliceInBounds(f.self.state, f.self.state_pos, state_end)
       \/ ~SliceInBounds(msg, f.msg_pos, f.msg_pos + f.msg_len)
    THEN Frame(f.self, f.msg_pos, f.msg_len, "range end index out of range")
    ELSE
    LET dst == Slice(f.self.state, f.self.state_pos, state_end)
        src == Slice(msg, f.msg_pos, f.msg_pos + f.msg_len)
    IN IF Len(dst) # Len(src)
       THEN Frame(f.self, f.msg_pos, f.msg_len, "slice length mismatch")
       ELSE Frame([f.self EXCEPT
                      !.state = WriteBack(f.self.state, f.self.state_pos, xor_in_place(dst, src)),
                      !.state_pos = f.self.state_pos + f.msg_len],
                  f.msg_pos, f.msg_len, "none")

\* Cmac::update that checks finished only after it has processed msg.
Cmac_update_late_check(self, msg, addr, be) ==
    LET f == update_tail(update_blocks(update_fill(self, msg), msg, addr, be), msg)
    IN IF self.finished
       THEN [self |-> f.self, panic |-> "already finished"]
       ELSE [self |-> f.self, panic |-> f.panic]

\* Cmac::update(msg): [self |-> the instance afterwards, panic |-> "none" or
\* the message of the panic that aborted the call].
Cmac_update(self, msg, addr, be) ==
    IF self.finished
    THEN [self |-> self, panic |-> "already finished"]
    ELSE LET f == update_tail(update_blocks(update_fill(self, msg), msg, addr, be), msg)
         IN [self |-> f.self, panic |-> f.panic]

\* Cmac::finish choosing subkey1 whenever state_pos is a multiple of 16.
Cmac_finish_multiple(self, be) ==
    IF self.finished
    THEN [self |-> self, tag |-> NoTag, panic |-> "already finished"]
    ELSE
    LET x == IF self.state_pos % BLOCK_SIZE = 0
             THEN Block_xor_in_place(self.state, self.subkey1, TRUE, be)
             ELSE Block_xor_in_place(self.state, self.subkey2, TRUE, be)
        padded == IF self.state_pos < BLOCK_SIZE /\ self.state_pos % BLOCK_SIZE # 0
                  THEN [x.block EXCEPT ![self.state_pos + 1] = XorByte(@, 128)]
                  ELSE x.block
        done == [self EXCEPT !.state = encrypt(self.cipher, padded),
                             !.encrypts = @ + 1,
                             !.finished = TRUE]
    IN [self |-> done, tag |-> done.state, panic |-> "none"]

\* Cmac::finish without the check of finished.
Cmac_finish_unchecked(self, be) ==
    LET x == IF self.state_pos = BLOCK_SIZE
             THEN Block_xor_in_place(self.state, self.subkey1, TRUE, be)
             ELSE Block_xor_in_place(self.state, self.subkey2, TRUE, be)
        padded == IF self.state_pos < BLOCK_SIZE
                  THEN [x.block EXCEPT ![self.state_pos + 1] = XorByte(@, 128)]
                  ELSE x.block
        done == [self EXCEPT !.state = encrypt(self.cipher, padded),
                             !.encrypts = @ + 1,
                             !.finished = TRUE]
    IN [self |-> done, tag |-> done.state, panic |-> "none"]

\* Cmac::finish(): [self, panic] as for update, and the Tag returned.
Cmac_finish(self, be) ==
    IF self.finished
    THEN [self |-> self, tag |-> NoTag, panic |-> "already finished"]
    ELSE
    LET x == IF self.state_pos = BLOCK_SIZE
             THEN Block_xor_in_place(self.state, self.subkey1, TRUE, be)
             ELSE Block_xor_in_place(self.state, self.subkey2, TRUE, be)
        padded == IF self.state_pos < BLOCK_SIZE
                  THEN [x.block EXCEPT ![self.state_pos + 1] = XorByte(@, 128)]
                  ELSE x.block
        done == [self EXCEPT !.state = encrypt(self.cipher, padded),
                             !.encrypts = @ + 1,
                             !.finished = TRUE]
    IN IF x.panic # "none"
       THEN [self |-> self, tag |-> NoTag, panic |-> x.panic]
       ELSE [self |-> done, tag |-> done.state, panic |-> "none"]

\* ------------------------------------------------------------------ inputs
\* The keys of the ciphers a Cmac is built over.
Keys == {11, 200}

\* The lengths of the msg arguments of update: empty, one byte, one short of
\* a block, a block, one over, and two blocks and a byte.
MsgLens == {0, 1, SIZE - 1, SIZE, SIZE + 1, 2 * SIZE + 1}

\* The msg of length n: its bytes differ from place to place and take values
\* on both sides of 0x80.
Msg(n) == [i \in 1..n |-> (37 * i + 3 * n) % 256]
\* The msg arguments of update.
Msgs == {Msg(n) : n \in MsgLens}

\* The addresses (modulo 16) msg may start at.
MsgAddrs == {0, 8}

\* The blocks of block.rs's test, and two more.
TestBlock1 == <<23, 204, 247, 247, 161, 140, 188, 61, 141, 173, 0, 241, 201, 121, 159, 186>>
TestBlock2 == <<141, 168, 213, 64, 124, 154, 98, 160, 123, 137, 148, 57, 58, 132, 241, 107>>
\* The bytes block.rs's test expects in block1 after block1.xor_in_place(&block2).
TestExpected == <<154, 100, 34, 183, 221, 22, 222, 157, 246, 36, 148, 200, 243, 253, 110, 209>>
Blocks == {TestBlock1, TestBlock2, [i \in 1..SIZE |-> 0], [i \in 1..SIZE |-> 255]}

\* The byte buffers handed to a Block's operations: 16-byte ones, and ones
\* that are shorter or longer by a byte, or empty, or a single byte.
Buffers ==
    Blocks \cup {SubSeq(TestBlock2, 1, SIZE - 1), TestBlock2 \o <<1>>,
                 TestBlock1 \o <<128>>, <<>>, <<128>>}

\* ------------------------------------------------------------------ state
\* The Cmac instance held in the variables.
Self ==
    [cipher |-> cipher, subkey1 |-> subkey1, subkey2 |-> subkey2,
     state |-> state, state_pos |-> state_pos, finished |-> finished,
     encrypts |-> encrypts]

\* The variables hold the instance c.
SelfBecomes(c) ==
    /\ cipher' = c.cipher
    /\ subkey1' = c.subkey1
    /\ subkey2' = c.subkey2
    /\ state' = c.state
    /\ state_pos' = c.state_pos
    /\ finished' = c.finished
    /\ encrypts' = c.encrypts

Outcome(panic) == IF panic = "none" THEN "ok" ELSE panic

\* let mac = Cmac::new(cipher), on a target of either byte order.
Init ==
    /\ \E k \in Keys :
         LET c == Cmac_new(k) IN
         /\ cipher = c.cipher
         /\ subkey1 = c.subkey1
         /\ subkey2 = c.subkey2
         /\ state = c.state
         /\ state_pos = c.state_pos
         /\ finished = c.finished
         /\ encrypts = c.encrypts
    /\ tag = NoTag
    /\ fed = <<>>
    /\ reset_from = "none"
    /\ block1 = Block_new
    /\ other = <<>>
    /\ other_aligned = TRUE
    /\ big_endian \in BOOLEAN
    /\ from_out = NoBlock
    /\ xored = <<>>
    /\ op = "new"
    /\ result = "ok"
    /\ calls = 0

\* mac.reset()
Reset ==
    /\ calls < MaxCalls
    /\ SelfBecomes(Cmac_reset(Self))
    /\ tag' = NoTag
    /\ fed' = <<>>
    /\ reset_from' = IF finished THEN "finished"
                     ELSE IF fed # <<>> THEN "fed" ELSE "fresh"
    /\ op' = "reset"
    /\ result' = "ok"
    /\ calls' = calls + 1
    /\ UNCHANGED block_vars

\* mac.update(msg), msg at an address that is addr modulo 16
Update ==
    \E msg \in Msgs, addr \in MsgAddrs :
        LET r == Cmac_update(Self, msg, addr, big_endian) IN
        /\ calls < MaxCalls
        /\ SelfBecomes(r.self)
        /\ fed' = IF r.panic = "none" THEN Append(fed, msg) ELSE fed
        /\ op' = "update"
        /\ result' = Outcome(r.panic)
        /\ calls' = calls + 1
        /\ UNCHANGED <<tag, reset_from, block_vars>>

\* let tag = mac.finish()
Finish ==
    LET r == Cmac_finish(Self, big_endian) IN
    /\ calls < MaxCalls
    /\ SelfBecomes(r.self)
    /\ tag' = IF r.panic = "none" THEN r.tag ELSE tag
    /\ op' = "finish"
    /\ result' = Outcome(r.panic)
    /\ calls' = calls + 1
    /\ UNCHANGED <<fed, reset_from, block_vars>>

Next == Reset \/ Update \/ Finish

Spec == Init /\ [][Next]_vars

\* ------------------------------------------------------------------ Block
\* A Block and a caller's buffer, on a target of either byte order.  A
\* buffer that is itself a Block is #[repr(align(16))]; any other buffer may
\* lie at any address.
BlockInit ==
    /\ block1 \in Blocks
    /\ other \in Buffers
    /\ other_aligned \in BOOLEAN
    /\ big_endian \in BOOLEAN
    /\ from_out = NoBlock
    /\ xored = <<>>
    /\ LET c == Cmac_new(11) IN
         /\ cipher = c.cipher
         /\ subkey1 = c.subkey1
         /\ subkey2 = c.subkey2
         /\ state = c.state
         /\ state_pos = c.state_pos
         /\ finished = c.finished
         /\ encrypts = c.encrypts
    /\ tag = NoTag
    /\ fed = <<>>
    /\ reset_from = "none"
    /\ op = "new"
    /\ result = "ok"
    /\ calls = 0

\* block1.xor_in_place(other)
XorInPlace ==
    LET r == Block_xor_in_place(block1, other, other_aligned, big_endian) IN
    /\ calls < MaxBlockCalls
    /\ block1' = r.block
    /\ xored' = IF r.panic = "none" THEN Append(xored, block1) ELSE xored
    /\ op' = "xor_in_place"
    /\ result' = Outcome(r.panic)
    /\ calls' = calls + 1
    /\ UNCHANGED <<cmac_vars, other, other_aligned, big_endian, from_out>>

\* let b = Block::from(other)
From ==
    LET r == Block_from(other) IN
    /\ calls < MaxBlockCalls
    /\ from_out' = r.block
    /\ op' = "from"
    /\ result' = Outcome(r.panic)
    /\ calls' = calls + 1
    /\ UNCHANGED <<cmac_vars, block1, other, other_aligned, big_endian, xored>>

BlockNext == XorInPlace \/ From

BlockSpec == BlockInit /\ [][BlockNext]_vars

\* ------------------------------------------------------------------ claims
RECURSIVE Flatten(_)
\* The message: the chunks fed so far, one after the other.
Flatten(chunks) ==
    IF chunks = <<>> THEN <<>> ELSE Head(chunks) \o Flatten(Tail(chunks))

\* The message length fed since construction or the last reset.
FedLen == Len(Flatten(fed))

\* finish has just returned a tag.
FinishReturned == op = "finish" /\ result = "ok"

\* Byte-wise XOR of two blocks.
BlockXor(a, b) == [i \in 1..SIZE |-> XorByte(a[i], b[i])]

\* The tag of a fresh Cmac fed m in a single update call and then finished.
OneShot(k, m, be) ==
    Cmac_finish(Cmac_update(Cmac_new(k), m, 0, be).self, be).tag

\* C1: streaming equivalence.  Whenever finish returns, its tag is the tag a
\* fresh Cmac over the same cipher returns for the concatenation of the
\* chunks, fed in one update call.
C1_StreamingEquivalence ==
    FinishReturned => tag = OneShot(cipher, Flatten(fed), big_endian)

\* C1 witness: finish returned after three update calls, one of them empty,
\* one ending exactly on a block boundary with more bytes to follow.
C1_Witness ==
    /\ FinishReturned
    /\ Len(fed) = 3
    /\ Len(fed[1]) = SIZE
    /\ fed[2] = <<>>
    /\ Len(fed[3]) = SIZE + 1

\* The reference CMAC of RFC 4493 / NIST SP 800-38B over cipher k.
RECURSIVE RefCbc(_, _, _, _)
RefCbc(k, m, nblocks, chain) ==
    IF nblocks = 0 THEN chain
    ELSE RefCbc(k, SubSeq(m, SIZE + 1, Len(m)), nblocks - 1,
                encrypt(k, BlockXor(chain, SubSeq(m, 1, SIZE))))

RefCmac(k, m) ==
    LET n == Len(m)
        nblocks == IF n = 0 THEN 1 ELSE (n + SIZE - 1) \div SIZE
        complete == n > 0 /\ n % SIZE = 0
        K1 == Block_dbl(encrypt(k, [i \in 1..SIZE |-> 0]))
        K2 == Block_dbl(K1)
        chain == RefCbc(k, m, nblocks - 1, [i \in 1..SIZE |-> 0])
        last == SubSeq(m, SIZE * (nblocks - 1) + 1, n)
        padded == [i \in 1..SIZE |->
                      IF i <= Len(last) THEN last[i]
                      ELSE IF i = Len(last) + 1 THEN 128 ELSE 0]
        m_last == IF complete THEN BlockXor(last, K1) ELSE BlockXor(padded, K2)
    IN encrypt(k, BlockXor(chain, m_last))

\* C2: whenever finish returns, its tag is the reference CMAC of the message
\* fed, whatever the chunking (the empty message included).
C2_MatchesReference ==
    FinishReturned => tag = RefCmac(cipher, Flatten(fed))

\* C2 witness: finish returned for a message of two complete blocks fed in
\* two chunks that do not end on the block boundary.
C2_Witness ==
    /\ FinishReturned
    /\ Len(fed) = 2
    /\ Len(fed[1]) = SIZE + 1
    /\ Len(fed[2]) = SIZE - 1

\* What finish leaves in state when it takes the complete-block branch, and
\* when it takes the padding branch with the 0x80 at 0-based offset pos.
AfterSubkey1(k, st, sk1) == encrypt(k, BlockXor(st, sk1))
AfterSubkey2(k, st, sk2, pos) ==
    encrypt(k, [BlockXor(st, sk2) EXCEPT ![pos + 1] = XorByte(@, 128)])

\* C3 as stated: a successful finish XORs subkey1 (and no padding) whenever
\* the total length is a multiple of 16, and subkey2 with 0x80 at the first
\* unused byte otherwise.
C3_AsStated ==
    [][(op' = "finish" /\ result' = "ok") =>
          state' = IF FedLen % SIZE = 0
                   THEN AfterSubkey1(cipher, state, subkey1)
                   ELSE AfterSubkey2(cipher, state, subkey2, FedLen % SIZE)]_vars

\* C3 amended: subkey1 (and no padding) exactly when the total length is a
\* positive multiple of 16; for every other length, the empty message
\* included, subkey2 with 0x80 XORed into the first unused byte.
C3_CompletenessBoundary ==
    [][(op' = "finish" /\ result' = "ok") =>
          state' = IF FedLen > 0 /\ FedLen % SIZE = 0
                   THEN AfterSubkey1(cipher, state, subkey1)
                   ELSE AfterSubkey2(cipher, state, subkey2, FedLen % SIZE)]_vars

\* C3 witness: finish returned for the empty message, fed as an empty chunk.
C3_Witness ==
    /\ FinishReturned
    /\ fed = << <<>> >>
    /\ tag = AfterSubkey2(cipher, [i \in 1..SIZE |-> 0], subkey2, 0)

\* C4: once finish has returned (a tag is held and no reset came since),
\* every update and every finish aborts with "already finished".
C4_AbortsOnceFinished ==
    [][(tag # NoTag /\ op' \in {"update", "finish"}) =>
          result' = "already finished"]_vars

\* C4 witness: finish returned as the first call and three calls aborted
\* after it, the last of them an update.
C4_Witness ==
    /\ tag # NoTag
    /\ fed = <<>>
    /\ reset_from = "none"
    /\ calls >= 3
    /\ op = "update"
    /\ result = "already finished"

\* C5: reset can be called in every state and never aborts; it leaves state
\* zero, state_pos 0 and finished false, and the subkeys and cipher as they were.
C5_Reset ==
    /\ [](calls < MaxCalls => ENABLED Reset)
    /\ [][op' = "reset" =>
            /\ result' = "ok"
            /\ state' = [i \in 1..SIZE |-> 0]
            /\ state_pos' = 0
            /\ finished' = FALSE
            /\ subkey1' = subkey1
            /\ subkey2' = subkey2
            /\ cipher' = cipher]_vars

\* C5 witness: reset was called on a finished instance.
C5_Witness == op = "reset" /\ reset_from = "finished" /\ ~finished

RECURSIVE FeedAll(_, _, _)
\* The instance c after update calls with the chunks, in order.
FeedAll(c, chunks, be) ==
    IF chunks = <<>> THEN c
    ELSE FeedAll(Cmac_update(c, Head(chunks), 0, be).self, Tail(chunks), be)

\* C6: after a reset, whatever came before it, the tag finish returns for a
\* sequence of update calls is the tag a freshly constructed Cmac over the
\* same cipher returns for the same sequence of calls.
C6_ReuseAfterReset ==
    (FinishReturned /\ reset_from # "none") =>
        tag = Cmac_finish(FeedAll(Cmac_new(cipher), fed, big_endian), big_endian).tag

\* C6 witness: reset came in the middle of a message, and a non-empty
\* message was then fed and finished.
C6_Witness ==
    /\ FinishReturned
    /\ reset_from = "fed"
    /\ FedLen > 0

\* C7: the subkeys are those derived from the cipher, in every state.
C7_Subkeys ==
    /\ subkey1 = Block_dbl(encrypt(cipher, [i \in 1..SIZE |-> 0]))
    /\ subkey2 = Block_dbl(subkey1)

\* C7 witness: a finish aborted on an instance that was reset before.
C7_Witness ==
    /\ op = "finish"
    /\ result = "already finished"
    /\ reset_from # "none"

\* C8: xor_in_place with a buffer that is not 16 bytes long aborts with the
\* size mismatch and leaves the receiving block as it was.
C8_XorSizeMismatch ==
    [][(op' = "xor_in_place" /\ Len(other) # SIZE) =>
          /\ result' = "xor_in_place works on block-sized slices"
          /\ block1' = block1]_vars

\* C8 witness: xor_in_place was called with a 17-byte buffer and aborted.
C8_Witness ==
    /\ op = "xor_in_place"
    /\ Len(other) = SIZE + 1
    /\ result = "xor_in_place works on block-sized slices"

\* C9: Block::from of at most 16 bytes is the bytes followed by zeros; of
\* more than 16 bytes it aborts and there is no block.
C9_BlockFrom ==
    op = "from" =>
        IF Len(other) <= SIZE
        THEN /\ result = "ok"
             /\ Len(from_out) = SIZE
             /\ \A i \in 1..SIZE :
                  from_out[i] = IF i <= Len(other) THEN other[i] ELSE 0
        ELSE /\ result = "slice is too large for block!"
             /\ from_out = NoBlock

\* C9 witness: a block was made from 15 bytes.
C9_Witness ==
    /\ op = "from"
    /\ result = "ok"
    /\ Len(other) = SIZE - 1
    /\ from_out[SIZE] = 0
    /\ from_out[SIZE - 1] = other[SIZE - 1]

\* The values block1 went through: before each successful xor_in_place, and now.
Block1Values == Append(xored, block1)

\* C10: XORing the same block into block1 twice restores block1, and the
\* block XORed in is never changed.
C10_XorSelfInverse ==
    /\ [](\A i \in 1..(Len(Block1Values) - 2) : Block1Values[i + 2] = Block1Values[i])
    /\ [][other' = other]_vars

\* C10 witness: a non-zero block was XORed in twice; block1 changed and came back.
C10_Witness ==
    /\ op = "xor_in_place"
    /\ Len(xored) = 2
    /\ xored[2] # xored[1]
    /\ block1 = xored[1]

\* block1 = TestBlock1 has just had TestBlock2 XORed into it, once.
TestVectorXored ==
    /\ op = "xor_in_place"
    /\ result = "ok"
    /\ Len(xored) = 1
    /\ xored[1] = TestBlock1
    /\ other = TestBlock2

\* The literal 9a6422b7dd169df6f62494c8f3fd6ed1.
C11_StatedLiteral == <<154, 100, 34, 183, 221, 22, 157, 246, 246, 36, 148, 200, 243, 253, 110, 209>>

\* C11 as stated: XORing 8da8d540...f16b into 17ccf7f7...9fba leaves
\* 9a6422b7dd169df6f62494c8f3fd6ed1.
C11_AsStated == TestVectorXored => block1 = C11_StatedLiteral

\* C11 amended: it leaves 9a6422b7dd16de9df62494c8f3fd6ed1, the bytes the
\* test of block.rs expects.
C11_TestVector == TestVectorXored => block1 = TestExpected

\* C11 witness: the test's XOR was made, through the whole-word path.
C11_Witness == TestVectorXored /\ other_aligned /\ block1[7] = 222 /\ block1[8] = 157

\* C12: a successful xor_in_place leaves in block1 the byte-wise XOR of the
\* old block1 and other, whichever path it took, and the two paths agree on
\* the inputs at hand.
C12_XorBytewiseBothPaths ==
    (op = "xor_in_place" /\ result = "ok") =>
        LET old == xored[Len(xored)] IN
        /\ \A i \in 1..SIZE : block1[i] = XorByte(old[i], other[i])
        /\ Block_xor_in_place(old, other, TRUE, big_endian).block
             = Block_xor_in_place(old, other, FALSE, big_endian).block

\* C12 witness: the byte-wise fallback XORed an unaligned 16-byte buffer
\* into a block it shares set bits with.
C12_Witness ==
    /\ op = "xor_in_place"
    /\ result = "ok"
    /\ ~other_aligned
    /\ Len(xored) = 1
    /\ xored[1] = TestBlock2
    /\ other = [i \in 1..SIZE |-> 255]

\* The block b with bytes XORed into it from 0-based offset off on.
XorInto(b, off, bytes) ==
    [i \in 1..SIZE |->
        IF i > off /\ i <= off + Len(bytes) THEN XorByte(b[i], bytes[i - off]) ELSE b[i]]

\* This step is an update call that returned.
UpdateStep == op' = "update" /\ result' = "ok" /\ Len(fed') = Len(fed) + 1

\* C13 as stated: an update whose input reaches the block boundary, an input
\* that ends exactly there included, encrypts state in that call; when the
\* input ends at the boundary it leaves the encrypted block and state_pos 0.
C13_AsStated ==
    [][UpdateStep =>
          LET msg == (fed')[Len(fed')]
              n == Len(msg)
              remaining == BLOCK_SIZE - state_pos
          IN (n > 0 /\ n >= remaining) =>
                /\ encrypts' >= encrypts + 1
                /\ n = remaining =>
                     /\ state_pos' = 0
                     /\ state' = encrypt(cipher, XorInto(state, state_pos, msg))]_vars

\* C13 amended: an update whose input has more bytes than the current block
\* has room for fills the block, encrypts it and resets state_pos to 0 in
\* that call, before the rest of the input is taken from offset 0; an input
\* that ends exactly at the boundary is XORed in and left unencrypted, with
\* state_pos = 16.
C13_FillEncrypts ==
    [][UpdateStep =>
          LET msg == (fed')[Len(fed')]
              n == Len(msg)
              remaining == BLOCK_SIZE - state_pos
              rest == n - remaining
          IN /\ n > remaining =>
                  /\ encrypts' >= encrypts + 1
                  /\ state_pos' = ((rest - 1) % BLOCK_SIZE) + 1
                  /\ rest <= BLOCK_SIZE =>
                       /\ encrypts' = encrypts + 1
                       /\ state' = XorInto(encrypt(cipher,
                                               XorInto(state, state_pos, SubSeq(msg, 1, remaining))),
                                           0, SubSeq(msg, remaining + 1, n))
             /\ (n > 0 /\ n = remaining) =>
                  /\ encrypts' = encrypts
                  /\ state_pos' = BLOCK_SIZE
                  /\ state' = XorInto(state, state_pos, msg)]_vars

\* C13 witness: with one byte buffered, a 16-byte input crossed the block
\* boundary: one encryption, and the last input byte buffered at offset 0.
C13_Witness ==
    /\ op = "update"
    /\ result = "ok"
    /\ Len(fed) = 2
    /\ Len(fed[1]) = 1
    /\ Len(fed[2]) = SIZE
    /\ encrypts = 1
    /\ state_pos = 1

\* The number of blocks of an n-byte message, less the last one.
BlocksBeforeLast(n) == IF n = 0 THEN 0 ELSE (n + SIZE - 1) \div SIZE - 1

\* C14: after update calls totalling n bytes the cipher has been applied to
\* state ceil(n/16)-1 times (0 times for n = 0) whatever the chunking, state
\* is the CBC chain over those blocks with the last full-or-partial block
\* XORed in unencrypted, and finish applies the cipher once more.
C14_DeferredFinalBlock ==
    LET m == Flatten(fed)
        before == BlocksBeforeLast(Len(m))
    IN IF tag = NoTag
       THEN /\ encrypts = before
            /\ state = XorInto(RefCbc(cipher, m, before, [i \in 1..SIZE |-> 0]), 0,
                               SubSeq(m, SIZE * before + 1, Len(m)))
       ELSE encrypts = before + 1

\* C14 witness: 49 bytes were fed in two chunks; three blocks are encrypted
\* and the 49th byte is buffered.
C14_Witness ==
    /\ op = "update"
    /\ tag = NoTag
    /\ Len(fed) = 2
    /\ FedLen = 3 * SIZE + 1
    /\ encrypts = 3
    /\ state_pos = 1

\* C15: finish on an unfinished instance XORs subkey1 (no padding) if
\* state_pos = 16, else subkey2 and 0x80 at offset state_pos; it encrypts
\* state once, sets finished, leaves state_pos and the subkeys, and returns
\* the resulting state.
C15_Finish ==
    [][(op' = "finish" /\ ~finished) =>
          /\ result' = "ok"
          /\ state' = IF state_pos = BLOCK_SIZE
                      THEN AfterSubkey1(cipher, state, subkey1)
                      ELSE AfterSubkey2(cipher, state, subkey2, state_pos)
          /\ encrypts' = encrypts + 1
          /\ finished' = TRUE
          /\ state_pos' = state_pos
          /\ subkey1' = subkey1
          /\ subkey2' = subkey2
          /\ tag' = state']_vars

\* C15 witness: finish returned with a complete block buffered.
C15_Witness ==
    /\ FinishReturned
    /\ state_pos = BLOCK_SIZE
    /\ finished
    /\ tag = state

\* C16: state_pos stays within 0..16.
C16_StatePosBounded == 0 <= state_pos /\ state_pos <= BLOCK_SIZE

\* C16 witness: update left a full block buffered.
C16_Witness == op = "update" /\ result = "ok" /\ state_pos = BLOCK_SIZE /\ ~finished

\* C17: on an unfinished instance no update and no finish panics: no
\* subtraction underflows, no range leaves msg or state, no XOR gets slices
\* of different lengths; and the padding offset of finish is below 16 when
\* it is used.
C17_DefensiveAbortsUnreachable ==
    [][(~finished /\ op' \in {"update", "finish"}) =>
          /\ result' = "ok"
          /\ (op' = "finish" /\ state_pos # BLOCK_SIZE) => state_pos < BLOCK_SIZE]_vars

\* C17 witness: an update of 33 bytes onto 15 buffered ones went through the
\* fill, the whole-block loop and the tail.
C17_Witness ==
    /\ op = "update"
    /\ result = "ok"
    /\ Len(fed) = 2
    /\ Len(fed[1]) = SIZE - 1
    /\ Len(fed[2]) = 2 * SIZE + 1
    /\ encrypts = 2
    /\ state_pos = BLOCK_SIZE

\* C18: with n bytes fed since construction or the last reset, state_pos is
\* 0 if n = 0 and ((n-1) mod 16) + 1 otherwise.
C18_Cursor ==
    state_pos = IF FedLen = 0 THEN 0 ELSE ((FedLen - 1) % SIZE) + 1

\* C18 witness: 32 bytes were fed in two chunks and state_pos is 16.
C18_Witness ==
    /\ Len(fed) = 2
    /\ FedLen = 2 * SIZE
    /\ Len(fed[1]) = SIZE + 1
    /\ state_pos = SIZE

\* C19: an update or finish that aborts with "already finished" changes
\* nothing: state (still the tag returned), state_pos, finished and the
\* subkeys stay, and the cipher is not invoked.
C19_AbortChangesNothing ==
    [][result' = "already finished" =>
          /\ state' = state
          /\ state' = tag'
          /\ tag' = tag
          /\ state_pos' = state_pos
          /\ finished /\ finished'
          /\ subkey1' = subkey1
          /\ subkey2' = subkey2
          /\ cipher' = cipher
          /\ encrypts' = encrypts
          /\ fed' = fed]_vars

\* C19 witness: an update with a non-empty msg aborted after a finish that
\* followed a 17-byte message.
C19_Witness ==
    /\ op = "update"
    /\ result = "already finished"
    /\ FedLen = SIZE + 1
    /\ state = tag
    /\ finished

====
